---- MODULE Spec2Model ----
(***************************************************************************)
(* The Reno congestion controller of quicly (lib/cc-reno.c).               *)
(*                                                                         *)
(* The controller's window fields are uint32_t.  TLC's integers stop at    *)
(* 2^31 - 1, so a uint32_t value is held as the sequence of its bytes,     *)
(* least significant first, without leading zero bytes (0 is << >>,        *)
(* UINT32_MAX is <<255, 255, 255, 255>>).  The arithmetic below works on   *)
(* such byte sequences of any length, i.e. on exact natural numbers; a     *)
(* C operation on uint32_t is the exact operation followed by ToU32, which *)
(* keeps the low four bytes (reduction modulo 2^32).                       *)
(***************************************************************************)
EXTENDS Integers, Sequences, FiniteSets, TLC

(* ---------------- exact naturals as little-endian byte strings --------- *)

Base == 256

RECURSIVE Norm(_)
Norm(s) ==
    IF s = << >> THEN s
    ELSE IF s[Len(s)] = 0 THEN Norm(SubSeq(s, 1, Len(s) - 1))
    ELSE s

\* the byte string of a TLC integer 0 <= n < 2^31
RECURSIVE Num(_)
Num(n) == IF n = 0 THEN << >> ELSE <<n % Base>> \o Num(n \div Base)

\* byte i of s (byte 1 is the least significant), 0 outside s
Digit(s, i) == IF 1 <= i /\ i <= Len(s) THEN s[i] ELSE 0

RECURSIVE LessAt(_, _, _)
LessAt(a, b, i) ==
    IF i = 0 THEN FALSE
    ELSE IF a[i] # b[i] THEN a[i] < b[i]
    ELSE LessAt(a, b, i - 1)

\* a < b
Less(a, b) == IF Len(a) # Len(b) THEN Len(a) < Len(b) ELSE LessAt(a, b, Len(a))

\* a <= b
Leq(a, b) == ~Less(b, a)

RECURSIVE AddFrom(_, _, _, _)
AddFrom(a, b, i, c) ==
    IF i > Len(a) /\ i > Len(b)
    THEN (IF c = 0 THEN << >> ELSE <<c>>)
    ELSE LET t == Digit(a, i) + Digit(b, i) + c
         IN  <<t % Base>> \o AddFrom(a, b, i + 1, t \div Base)

\* a + b, exactly
Add(a, b) == AddFrom(a, b, 1, 0)

RECURSIVE SubFrom(_, _, _, _)
SubFrom(a, b, i, c) ==
    IF i > Len(a) THEN << >>
    ELSE LET t == a[i] - Digit(b, i) - c
         IN  IF t < 0 THEN <<t + Base>> \o SubFrom(a, b, i + 1, 1)
             ELSE <<t>> \o SubFrom(a, b, i + 1, 0)

\* a - b, exactly, for a >= b
Sub(a, b) == Norm(SubFrom(a, b, 1, 0))

RECURSIVE MulDigitFrom(_, _, _, _)
MulDigitFrom(a, d, i, c) ==
    IF i > Len(a) THEN (IF c = 0 THEN << >> ELSE <<c>>)
    ELSE LET t == a[i] * d + c
         IN  <<t % Base>> \o MulDigitFrom(a, d, i + 1, t \div Base)

\* a * d, exactly, for one byte d
MulDigit(a, d) == Norm(MulDigitFrom(a, d, 1, 0))

\* the sum of the byte products a[i] * b[j] with i + j = k + 1, for i >= from
RECURSIVE Column(_, _, _, _)
Column(a, b, k, from) ==
    IF from > Len(a) THEN 0
    ELSE a[from] * Digit(b, k + 1 - from) + Column(a, b, k, from + 1)

RECURSIVE MulFrom(_, _, _, _)
MulFrom(a, b, k, c) ==
    IF k > Len(a) + Len(b) THEN << >>
    ELSE LET t == Column(a, b, k, 1) + c
         IN  <<t % Base>> \o MulFrom(a, b, k + 1, t \div Base)

\* a * b, exactly (schoolbook multiplication, column by column)
Mul(a, b) == Norm(MulFrom(a, b, 1, 0))

\* the largest byte d with b * d <= r, found bit by bit (w = 128, 64, ..., 1)
RECURSIVE QuotDigit(_, _, _, _)
QuotDigit(r, b, d, w) ==
    IF w = 0 THEN d
    ELSE IF Leq(MulDigit(b, d + w), r) THEN QuotDigit(r, b, d + w, w \div 2)
    ELSE QuotDigit(r, b, d, w \div 2)

\* quotient and remainder of the number made of bytes i.. of a, by b # 0
RECURSIVE DivModFrom(_, _, _)
DivModFrom(a, b, i) ==
    IF i > Len(a) THEN [q |-> << >>, r |-> << >>]
    ELSE LET h == DivModFrom(a, b, i + 1)
             r1 == Norm(<<a[i]>> \o h.r)
             d == QuotDigit(r1, b, 0, Base \div 2)
         IN  [q |-> Norm(<<d>> \o h.q), r |-> Sub(r1, MulDigit(b, d))]

\* a / b and a % b as C computes them on unsigned operands.  Division by
\* zero is undefined behaviour in C; here it has no value (TLC stops with an
\* error if a run ever evaluates it).
DivMod(a, b) ==
    IF b = << >> THEN CHOOSE x \in {} : TRUE ELSE DivModFrom(a, b, 1)

\* 2^n
RECURSIVE Pow2(_)
Pow2(n) == IF n < 8 THEN <<2 ^ n>> ELSE <<0>> \o Pow2(n - 8)

\* a * 2^n
ShiftLeft(a, n) ==
    IF a = << >> THEN a
    ELSE [i \in 1..(n \div 8) |-> 0] \o MulDigit(a, 2 ^ (n % 8))

\* a \div 2^n
ShiftRight(a, n) ==
    LET k == n \div 8
        r == n % 8
        m == Len(a) - k
    IN  IF m <= 0 THEN << >>
        ELSE Norm(SubSeq([i \in 1..m |->
                            (a[i + k] \div 2 ^ r)
                            + (Digit(a, i + k + 1) % 2 ^ r) * 2 ^ (8 - r)],
                         1, m))

\* bit k of a (bit 0 is the least significant)
Bit(a, k) == (Digit(a, k \div 8 + 1) \div 2 ^ (k % 8)) % 2

\* whether a % 2^k is not zero
LowBitsSet(a, k) ==
    \/ Digit(a, k \div 8 + 1) % 2 ^ (k % 8) # 0
    \/ \E i \in 1..(k \div 8) : Digit(a, i) # 0

RECURSIVE BitsOfByte(_)
BitsOfByte(d) == IF d = 0 THEN 0 ELSE 1 + BitsOfByte(d \div 2)

\* the number of significant bits of a
BitLen(a) == IF a = << >> THEN 0 ELSE 8 * (Len(a) - 1) + BitsOfByte(a[Len(a)])

IsOdd(a) == Digit(a, 1) % 2 = 1

(* ---------------- uint32_t ---------------------------------------------- *)

\* conversion to uint32_t: the value modulo 2^32
ToU32(a) == Norm(SubSeq(a, 1, IF Len(a) < 4 THEN Len(a) ELSE 4))

UINT32_MAX == <<255, 255, 255, 255>>

\* whether the exact value a does not fit a uint32_t, so that ToU32 changes it
Exceeds32(a) == Less(UINT32_MAX, a)

\* a - b on uint32_t operands: the difference modulo 2^32
SubU32(a, b) == ToU32(Sub(Add(a, Pow2(32)), b))

(* ---------------- double ------------------------------------------------ *)

\* significand bits of an IEEE 754 binary64
DBL_MANT_DIG == 53

\* the exact natural p rounded to DBL_MANT_DIG significant bits, to nearest,
\* ties to even: the rounding of one double-precision operation
RoundToDouble(p) ==
    LET n == BitLen(p)
    IN  IF n <= DBL_MANT_DIG THEN p
        ELSE LET s == n - DBL_MANT_DIG
                 q == ShiftRight(p, s)
                 up == /\ Bit(p, s - 1) = 1
                       /\ (LowBitsSet(p, s - 1) \/ IsOdd(q))
             IN  ShiftLeft(IF up THEN Add(q, <<1>>) ELSE q, s)

(* ---------------- constants of cc-reno.c -------------------------------- *)

QUICLY_MIN_CWND == 2

\* the double nearest to 0.7 is 0x1.6666666666666p-1
\*   = 0x16666666666666 * 2^-53 (6305039478318694 / 2^53)
QUICLY_RENO_BETA == [mant |-> <<102, 102, 102, 102, 102, 102, 22>>, scale |-> 53]

QUICLY_RENO_LOSS_THRESHOLD == 2

mtu_max == 1472

(* ---------------- quicly_cc_t ------------------------------------------- *)

\* memset(cc, 0, sizeof(quicly_cc_t))
ZeroCC ==
    [impl |-> "NULL",
     cwnd |-> << >>, ssthresh |-> << >>, cwnd_initial |-> << >>,
     cwnd_maximum |-> << >>, cwnd_minimum |-> << >>,
     cwnd_exiting_slow_start |-> << >>,
     recovery_end |-> 0, num_loss_episodes |-> 0,
     num_lost_in_episode |-> << >>, stash |-> << >>]

(* ---------------- reno_on_acked ----------------------------------------- *)

\* a variant of line 33 with the assertion compiled out
AckedAssertionOff(bytes, inflight) == TRUE

\* assert(inflight >= bytes)
AckedAssertion(bytes, inflight) == Leq(bytes, inflight)

\* a variant of line 36 without the test of num_lost_in_episode
InRecoveryAnyLoss(cc, largest_acked) == largest_acked < cc.recovery_end

\* largest_acked < cc->recovery_end && num_lost_in_episode >= THRESHOLD
InRecovery(cc, largest_acked) ==
    /\ largest_acked < cc.recovery_end
    /\ Leq(Num(QUICLY_RENO_LOSS_THRESHOLD), cc.num_lost_in_episode)

\* a variant of lines 44-45 and 54-55 without the comparison
UpdateMaximumAlways(cc) == [cc EXCEPT !.cwnd_maximum = cc.cwnd]

\* if (cc->cwnd_maximum < cc->cwnd) cc->cwnd_maximum = cc->cwnd;
UpdateMaximum(cc) ==
    IF Less(cc.cwnd_maximum, cc.cwnd) THEN [cc EXCEPT !.cwnd_maximum = cc.cwnd]
    ELSE cc

\* the slow start branch: cc->cwnd += bytes
SlowStart(cc, bytes) ==
    UpdateMaximum([cc EXCEPT !.cwnd = ToU32(Add(cc.cwnd, bytes))])

\* a variant of lines 48-55 that grows the window by one
\* max_udp_payload_size whatever count is
CongestionAvoidanceOneSegment(cc, bytes, max_udp_payload_size) ==
    LET stash == ToU32(Add(cc.stash, bytes))
    IN  IF Less(stash, cc.cwnd) THEN [cc EXCEPT !.stash = stash]
        ELSE LET count == DivMod(stash, cc.cwnd).q
             IN  UpdateMaximum(
                   [cc EXCEPT
                      !.stash = SubU32(stash, ToU32(Mul(count, cc.cwnd))),
                      !.cwnd = ToU32(Add(cc.cwnd, max_udp_payload_size))])

\* a variant of lines 48-55 that converts one window of the stash per call
CongestionAvoidanceOneWindow(cc, bytes, max_udp_payload_size) ==
    LET stash == ToU32(Add(cc.stash, bytes))
    IN  IF Less(stash, cc.cwnd) THEN [cc EXCEPT !.stash = stash]
        ELSE UpdateMaximum(
               [cc EXCEPT
                  !.stash = SubU32(stash, cc.cwnd),
                  !.cwnd = ToU32(Add(cc.cwnd, max_udp_payload_size))])

\* the congestion avoidance branch
CongestionAvoidance(cc, bytes, max_udp_payload_size) ==
    LET stash == ToU32(Add(cc.stash, bytes))
    IN  IF Less(stash, cc.cwnd) THEN [cc EXCEPT !.stash = stash]
        ELSE LET count == DivMod(stash, cc.cwnd).q
             IN  UpdateMaximum(
                   [cc EXCEPT
                      !.stash = SubU32(stash, ToU32(Mul(count, cc.cwnd))),
                      !.cwnd = ToU32(Add(cc.cwnd,
                                 ToU32(Mul(count, max_udp_payload_size))))])

\* the body of reno_on_acked after its assertion
reno_on_acked(cc, bytes, largest_acked, inflight, max_udp_payload_size) ==
    IF InRecovery(cc, largest_acked) THEN cc
    ELSE IF Less(cc.cwnd, cc.ssthresh) THEN SlowStart(cc, bytes)
    ELSE CongestionAvoidance(cc, bytes, max_udp_payload_size)

(* ---------------- reno_on_lost ------------------------------------------ *)

\* a variant of the test of line 63 that compares with > instead of >=
NewEpisodeStrict(cc, lost_pn) == lost_pn > cc.recovery_end

\* whether this loss starts a new recovery episode
NewEpisode(cc, lost_pn) == lost_pn >= cc.recovery_end

\* a variant of line 64 that ends the episode at the lost packet
EpisodeBoundaryAtLost(cc, lost_pn, next_pn) ==
    IF NewEpisode(cc, lost_pn)
    THEN [cc EXCEPT !.recovery_end = lost_pn, !.num_lost_in_episode = << >>]
    ELSE cc

\* set up state if potentially new recovery episode
EpisodeBoundary(cc, lost_pn, next_pn) ==
    IF NewEpisode(cc, lost_pn)
    THEN [cc EXCEPT !.recovery_end = next_pn, !.num_lost_in_episode = << >>]
    ELSE cc

\* a variant of line 26 with a decrease factor of one half
MulBetaHalf(cwnd) == ToU32(ShiftRight(cwnd, 1))

\* cc->cwnd *= QUICLY_RENO_BETA: cwnd is converted to double (exactly), the
\* product is rounded to double, and the result is converted back to
\* uint32_t by discarding the fraction
MulBeta(cwnd) ==
    ToU32(ShiftRight(RoundToDouble(Mul(cwnd, QUICLY_RENO_BETA.mant)),
                     QUICLY_RENO_BETA.scale))

\* a variant of line 25 with a minimum window of four packets
MinCwndFourPackets(max_udp_payload_size) ==
    ToU32(Mul(Num(4), max_udp_payload_size))

\* QUICLY_MIN_CWND * max_udp_payload_size, an unsigned 32-bit product
MinCwnd(max_udp_payload_size) ==
    ToU32(Mul(Num(QUICLY_MIN_CWND), max_udp_payload_size))

\* a variant of lines 85-87 without the clamp
ReducedCwndUnclamped(cwnd, max_udp_payload_size) == MulBeta(cwnd)

\* reduce congestion window: multiply by beta, then clamp from below
ReducedCwnd(cwnd, max_udp_payload_size) ==
    LET reduced == MulBeta(cwnd)
    IN  IF Less(reduced, MinCwnd(max_udp_payload_size))
        THEN MinCwnd(max_udp_payload_size)
        ELSE reduced

\* a variant of lines 80-91 without the assignment to ssthresh of line 88
ReductionKeepingSsthresh(cc, max_udp_payload_size) ==
    LET cwnd == ReducedCwnd(cc.cwnd, max_udp_payload_size)
    IN  [cc EXCEPT
           !.num_loss_episodes = @ + 1,
           !.cwnd_exiting_slow_start = IF @ = << >> THEN cc.cwnd ELSE @,
           !.cwnd = cwnd,
           !.cwnd_minimum = IF Less(cwnd, @) THEN cwnd ELSE @]

\* a variant of line 88 that sets ssthresh to the window before the reduction
ReductionSsthreshBefore(cc, max_udp_payload_size) ==
    LET cwnd == ReducedCwnd(cc.cwnd, max_udp_payload_size)
    IN  [cc EXCEPT
           !.num_loss_episodes = @ + 1,
           !.cwnd_exiting_slow_start = IF @ = << >> THEN cc.cwnd ELSE @,
           !.cwnd = cwnd,
           !.ssthresh = cc.cwnd,
           !.cwnd_minimum = IF Less(cwnd, @) THEN cwnd ELSE @]

\* the congestion action taken when the loss threshold is reached
Reduction(cc, max_udp_payload_size) ==
    LET cwnd == ReducedCwnd(cc.cwnd, max_udp_payload_size)
    IN  [cc EXCEPT
           !.num_loss_episodes = @ + 1,
           !.cwnd_exiting_slow_start = IF @ = << >> THEN cc.cwnd ELSE @,
           !.cwnd = cwnd,
           !.ssthresh = cwnd,
           !.cwnd_minimum = IF Less(cwnd, @) THEN cwnd ELSE @]

\* a variant of line 77 that reduces at every loss but the second
reno_on_lost_inverted(cc, bytes, lost_pn, next_pn, max_udp_payload_size) ==
    LET counted == [EpisodeBoundary(cc, lost_pn, next_pn) EXCEPT
                      !.num_lost_in_episode = ToU32(Add(@, <<1>>))]
    IN  IF counted.num_lost_in_episode = Num(QUICLY_RENO_LOSS_THRESHOLD)
        THEN counted
        ELSE Reduction(counted, max_udp_payload_size)

\* a variant of line 77 that reduces at every loss from the threshold on
reno_on_lost_retriggering(cc, bytes, lost_pn, next_pn, max_udp_payload_size) ==
    LET counted == [EpisodeBoundary(cc, lost_pn, next_pn) EXCEPT
                      !.num_lost_in_episode = ToU32(Add(@, <<1>>))]
    IN  IF Less(counted.num_lost_in_episode, Num(QUICLY_RENO_LOSS_THRESHOLD))
        THEN counted
        ELSE Reduction(counted, max_udp_payload_size)

reno_on_lost(cc, bytes, lost_pn, next_pn, max_udp_payload_size) ==
    LET counted == [EpisodeBoundary(cc, lost_pn, next_pn) EXCEPT
                      !.num_lost_in_episode = ToU32(Add(@, <<1>>))]
    IN  IF counted.num_lost_in_episode # Num(QUICLY_RENO_LOSS_THRESHOLD)
        THEN counted
        ELSE Reduction(counted, max_udp_payload_size)

(* ---------------- the other handlers ------------------------------------ *)

\* a variant of reno_on_persistent_congestion that resets the window to the
\* smallest it has been
reno_on_persistent_congestion_resetting(cc) ==
    [cc EXCEPT !.cwnd = cc.cwnd_minimum, !.ssthresh = cc.cwnd_minimum]

\* TODO in the source: no statement
reno_on_persistent_congestion(cc) == cc

\* a variant of reno_on_sent that accounts the bytes sent in the stash
reno_on_sent_stashing(cc, bytes) ==
    [cc EXCEPT !.stash = ToU32(Add(@, bytes))]

\* unused in the source: no statement
reno_on_sent(cc, bytes) == cc

\* a variant of reno_init without the memset of line 109
reno_init_no_memset(cc, initcwnd) ==
    [cc EXCEPT
       !.impl = "reno_impl",
       !.cwnd = initcwnd, !.cwnd_initial = initcwnd, !.cwnd_maximum = initcwnd,
       !.ssthresh = UINT32_MAX, !.cwnd_minimum = UINT32_MAX]

reno_init(cc, initcwnd) ==
    [ZeroCC EXCEPT
       !.impl = "reno_impl",
       !.cwnd = initcwnd, !.cwnd_initial = initcwnd, !.cwnd_maximum = initcwnd,
       !.ssthresh = UINT32_MAX, !.cwnd_minimum = UINT32_MAX]

\* max_packets is a uint32_t, max_udp_payload_size a uint16_t (a TLC integer)
\* the product of line 127, before it is reduced to 32 bits
InitialCwndProduct(max_packets, max_udp_payload_size) ==
    LET packets == IF Less(max_packets, Num(QUICLY_MIN_CWND))
                   THEN Num(QUICLY_MIN_CWND) ELSE max_packets
        size == IF max_udp_payload_size > mtu_max
                THEN mtu_max ELSE max_udp_payload_size
    IN  Mul(packets, Num(size))

quicly_cc_calc_initial_cwnd(max_packets, max_udp_payload_size) ==
    ToU32(InitialCwndProduct(max_packets, max_udp_payload_size))

(* ---------------- the state machine ------------------------------------- *)

\* the longest run of calls explored, and the largest packet number passed
MaxCalls == 5
MaxPn == 2

\* the arguments the caller may pass
PNs == 0..MaxPn
PayloadSizes == {1472, 2000}
MTUs == {Num(size) : size \in PayloadSizes}
MaxPacketsSet == {Num(1), Num(10), Num(15), UINT32_MAX}
ByteCounts == {Num(1472), Num(14720)}

VARIABLES
    cc,        \* the quicly_cc_t the handlers are called on
    last,      \* the last call made: the function and its arguments
    aborted,   \* whether the assertion of reno_on_acked has stopped the program
    ncalls,    \* the number of calls made so far
    episode    \* history: the reductions since the last episode boundary and
               \* since recovery_end last took a new value

vars == <<cc, last, aborted, ncalls, episode>>

NoCall ==
    [op |-> "none", bytes |-> << >>, pn |-> 0, next_pn |-> 0,
     inflight |-> << >>, mtu |-> << >>, max_packets |-> << >>, size |-> 0,
     initcwnd |-> << >>, used |-> FALSE]

NoReductions == [since_boundary |-> 0, since_recovery_end_changed |-> 0]

\* a connection is set up: the initial window is computed by
\* quicly_cc_calc_initial_cwnd and the controller initialised with it
\* used tells whether the controller initialised had reduced its window before
InitCall(max_packets, size, used) ==
    [NoCall EXCEPT
       !.op = "reno_init", !.max_packets = max_packets, !.size = size,
       !.initcwnd = quicly_cc_calc_initial_cwnd(max_packets, size),
       !.used = used]

Init ==
    \E max_packets \in MaxPacketsSet, size \in PayloadSizes :
        /\ last = InitCall(max_packets, size, FALSE)
        /\ cc = reno_init(ZeroCC, last.initcwnd)
        /\ aborted = FALSE
        /\ ncalls = 0
        /\ episode = NoReductions

CanCall == ~aborted /\ ncalls < MaxCalls

\* a controller in use is initialised again, for a new connection
RenoInit(max_packets, size) ==
    /\ CanCall
    /\ last' = InitCall(max_packets, size, cc.num_loss_episodes > 0)
    /\ cc' = reno_init(cc, last'.initcwnd)
    /\ episode' = NoReductions
    /\ ncalls' = ncalls + 1
    /\ UNCHANGED aborted

OnAcked(bytes, largest_acked, inflight, mtu) ==
    /\ CanCall
    /\ IF AckedAssertion(bytes, inflight)
       THEN /\ cc' = reno_on_acked(cc, bytes, largest_acked, inflight, mtu)
            /\ aborted' = FALSE
       ELSE /\ cc' = cc
            /\ aborted' = TRUE
    /\ last' = [NoCall EXCEPT
                  !.op = "reno_on_acked", !.bytes = bytes,
                  !.pn = largest_acked, !.inflight = inflight, !.mtu = mtu]
    /\ ncalls' = ncalls + 1
    /\ UNCHANGED episode

OnLost(bytes, lost_pn, next_pn, mtu) ==
    /\ CanCall
    /\ cc' = reno_on_lost(cc, bytes, lost_pn, next_pn, mtu)
    /\ last' = [NoCall EXCEPT
                  !.op = "reno_on_lost", !.bytes = bytes, !.pn = lost_pn,
                  !.next_pn = next_pn, !.mtu = mtu]
    /\ LET reduced == IF cc'.num_loss_episodes # cc.num_loss_episodes
                      THEN 1 ELSE 0
       IN  episode' =
             [since_boundary |->
                  (IF NewEpisode(cc, lost_pn) THEN 0
                   ELSE episode.since_boundary) + reduced,
              since_recovery_end_changed |->
                  (IF cc'.recovery_end # cc.recovery_end THEN 0
                   ELSE episode.since_recovery_end_changed) + reduced]
    /\ ncalls' = ncalls + 1
    /\ UNCHANGED aborted

OnPersistentCongestion ==
    /\ CanCall
    /\ cc' = reno_on_persistent_congestion(cc)
    /\ last' = [NoCall EXCEPT !.op = "reno_on_persistent_congestion"]
    /\ ncalls' = ncalls + 1
    /\ UNCHANGED <<aborted, episode>>

OnSent(bytes) ==
    /\ CanCall
    /\ cc' = reno_on_sent(cc, bytes)
    /\ last' = [NoCall EXCEPT !.op = "reno_on_sent", !.bytes = bytes]
    /\ ncalls' = ncalls + 1
    /\ UNCHANGED <<aborted, episode>>

Next ==
    \/ \E max_packets \in MaxPacketsSet, size \in PayloadSizes :
           RenoInit(max_packets, size)
    \/ \E bytes \in ByteCounts, largest_acked \in PNs, inflight \in ByteCounts,
          mtu \in MTUs :
           OnAcked(bytes, largest_acked, inflight, mtu)
    \/ \E lost_pn \in PNs, next_pn \in PNs, mtu \in MTUs :
           OnLost(Num(1472), lost_pn, next_pn, mtu)
    \/ OnPersistentCongestion
    \/ \E bytes \in ByteCounts : OnSent(bytes)

Spec == Init /\ [][Next]_vars

(* ---------------- properties -------------------------------------------- *)

\* In the properties of steps, cc and last are the controller before a call
\* and the previous call; where a property computes with the state after
\* the call, call and post name last' and cc'.

\* C1, as the specification states it: after every reno_on_acked or
\* reno_on_lost call, reducing or not, cwnd >= QUICLY_MIN_CWND times the
\* max_udp_payload_size of that call.
C1_FloorAfterEveryCall ==
    (last.op \in {"reno_on_acked", "reno_on_lost"} /\ ~aborted)
        => Leq(Mul(Num(QUICLY_MIN_CWND), last.mtu), cc.cwnd)

\* C1, as the code has it: after every reno_on_lost call that applies a
\* reduction (the call that makes num_lost_in_episode equal to the threshold),
\* cwnd >= QUICLY_MIN_CWND times the max_udp_payload_size of that call.
C1_FloorAfterReduction ==
    (/\ last.op = "reno_on_lost"
     /\ cc.num_lost_in_episode = Num(QUICLY_RENO_LOSS_THRESHOLD))
        => Leq(Mul(Num(QUICLY_MIN_CWND), last.mtu), cc.cwnd)

\* a reduction whose result is the clamp value, for the larger payload size
C1_ClampApplied ==
    /\ last.op = "reno_on_lost"
    /\ cc.num_lost_in_episode = Num(QUICLY_RENO_LOSS_THRESHOLD)
    /\ last.mtu = Num(2000)
    /\ cc.cwnd = Num(4000)
    /\ Less(cc.cwnd, cc.cwnd_maximum)

C3_EpisodeBoundary ==
    [][IF last'.op = "reno_on_lost"
       THEN IF last'.pn >= cc.recovery_end
            THEN /\ cc'.recovery_end = last'.next_pn
                 /\ cc'.num_lost_in_episode = Num(1)
            ELSE /\ cc'.recovery_end = cc.recovery_end
                 /\ cc'.num_lost_in_episode =
                        Add(cc.num_lost_in_episode, <<1>>)
       ELSE last'.op # "reno_init"
                => /\ cc'.recovery_end = cc.recovery_end
                   /\ cc'.num_lost_in_episode = cc.num_lost_in_episode]_vars

\* the first loss of a second episode, after an episode that made a reduction
C3_SecondEpisodeStarted ==
    /\ last.op = "reno_on_lost"
    /\ cc.num_lost_in_episode = Num(1)
    /\ cc.num_loss_episodes = 1
    /\ cc.recovery_end = last.next_pn
    /\ last.next_pn > last.pn

\* C4, as the specification states it: no step after reno_init raises
\* ssthresh.
C4_SsthreshNeverRaised ==
    [][last'.op # "reno_init" => Leq(cc'.ssthresh, cc.ssthresh)]_vars

\* C4, as the code has it: a reno_on_lost call that applies a reduction sets
\* ssthresh to the reduced cwnd, whether that is below or above the value
\* ssthresh had; every other handler call leaves ssthresh unchanged.
C4_SsthreshSetOnReduction ==
    [][IF /\ last'.op = "reno_on_lost"
          /\ cc'.num_loss_episodes # cc.num_loss_episodes
       THEN cc'.ssthresh = cc'.cwnd
       ELSE last'.op # "reno_init" => cc'.ssthresh = cc.ssthresh]_vars

\* a second reduction, made after the window has grown in congestion avoidance
C4_SecondReduction ==
    /\ last.op = "reno_on_lost"
    /\ cc.num_lost_in_episode = Num(QUICLY_RENO_LOSS_THRESHOLD)
    /\ cc.num_loss_episodes = 2
    /\ cc.ssthresh = cc.cwnd
    /\ Less(cc.cwnd_exiting_slow_start, cc.cwnd_maximum)

\* C5: every reno_on_acked call made while cwnd < ssthresh leaves cwnd equal
\* to its value before the call plus bytes, as integers: the ack is neither
\* suppressed nor truncated nor wrapped.
C5_SlowStartAdditive ==
    [][\A call \in {last'}, post \in {cc'} :
        (/\ call.op = "reno_on_acked"
         /\ ~aborted'
         /\ Less(cc.cwnd, cc.ssthresh))
            => post.cwnd = Add(cc.cwnd, call.bytes)]_vars

\* C6: no handler call lowers cwnd_maximum or raises cwnd_minimum.
C6_WatermarksMonotone ==
    [][last'.op # "reno_init"
           => /\ Leq(cc.cwnd_maximum, cc'.cwnd_maximum)
              /\ Leq(cc'.cwnd_minimum, cc.cwnd_minimum)]_vars

\* both watermarks have moved, and the window lies strictly between them
C6_BothWatermarksMoved ==
    /\ Less(cc.cwnd_initial, cc.cwnd_maximum)
    /\ Less(cc.cwnd_minimum, cc.cwnd_initial)
    /\ Less(cc.cwnd_minimum, cc.cwnd)
    /\ Less(cc.cwnd, cc.cwnd_maximum)

\* C7: none of the unsigned 32-bit computations of a call exceeds UINT32_MAX:
\* the product of quicly_cc_calc_initial_cwnd, cwnd + bytes in slow start,
\* stash + bytes, count * cwnd and cwnd + count * max_udp_payload_size in
\* congestion avoidance, and num_lost_in_episode + 1 in reno_on_lost.
C7_NoWrap ==
    [][\A call \in {last'}, post \in {cc'} :
        /\ call.op = "reno_init"
             => ~Exceeds32(InitialCwndProduct(call.max_packets, call.size))
        /\ (/\ call.op = "reno_on_acked"
            /\ ~aborted'
            /\ ~InRecovery(cc, call.pn))
             => IF Less(cc.cwnd, cc.ssthresh)
                THEN ~Exceeds32(Add(cc.cwnd, call.bytes))
                ELSE LET sum == Add(cc.stash, call.bytes)
                         count == DivMod(ToU32(sum), cc.cwnd).q
                         growth == Mul(count, call.mtu)
                     IN  /\ ~Exceeds32(sum)
                         /\ ~Less(ToU32(sum), cc.cwnd)
                              => /\ ~Exceeds32(Mul(count, cc.cwnd))
                                 /\ ~Exceeds32(growth)
                                 /\ ~Exceeds32(Add(cc.cwnd, ToU32(growth)))
        /\ call.op = "reno_on_lost"
             => ~Exceeds32(Add(EpisodeBoundary(cc, call.pn, call.next_pn)
                                   .num_lost_in_episode, <<1>>))]_vars

\* C8: a reno_on_sent call leaves every field of the controller unchanged.
C8_OnSentNoOp == [][last'.op = "reno_on_sent" => cc' = cc]_vars

\* reno_on_sent called on a controller that has reduced its window, holds
\* bytes in its stash and is in the middle of an episode
C8_OnSentAfterUse ==
    /\ last.op = "reno_on_sent"
    /\ cc.num_loss_episodes > 0
    /\ cc.stash # << >>
    /\ cc.recovery_end > 0

\* C9: after reno_init, cwnd = cwnd_initial = cwnd_maximum = initcwnd,
\* ssthresh = cwnd_minimum = UINT32_MAX, the handler table is bound and
\* every other field is zero, whatever the controller held before.
C9_InitPostState ==
    last.op = "reno_init"
        => cc = [impl |-> "reno_impl",
                 cwnd |-> last.initcwnd,
                 cwnd_initial |-> last.initcwnd,
                 cwnd_maximum |-> last.initcwnd,
                 ssthresh |-> <<255, 255, 255, 255>>,
                 cwnd_minimum |-> <<255, 255, 255, 255>>,
                 cwnd_exiting_slow_start |-> << >>,
                 recovery_end |-> 0,
                 num_loss_episodes |-> 0,
                 num_lost_in_episode |-> << >>,
                 stash |-> << >>]

\* a controller that had reduced its window has been initialised again
C9_UsedControllerReinitialised ==
    /\ last.op = "reno_init"
    /\ last.used
    /\ ncalls > 2

\* C10: quicly_cc_calc_initial_cwnd returns max(max_packets, 2) times
\* min(max_udp_payload_size, 1472), as integers, for every pair of arguments.
C10_InitialCwndIsProduct ==
    last.op = "reno_init"
        => last.initcwnd =
             Mul(IF Less(last.max_packets, <<2>>) THEN <<2>>
                 ELSE last.max_packets,
                 Num(IF last.size > 1472 THEN 1472 ELSE last.size))

\* C11: a reno_on_acked call with inflight < bytes stops the program and
\* leaves every field of the controller as it was; a call with
\* inflight >= bytes does not stop it; nothing is called once it has stopped.
C11_FatalPrecondition ==
    [][/\ ~aborted
       /\ last'.op = "reno_on_acked"
            => /\ aborted' <=> Less(last'.inflight, last'.bytes)
               /\ aborted' => cc' = cc
       /\ last'.op # "reno_on_acked" => ~aborted']_vars

\* the assertion has failed on a controller that is in congestion avoidance
\* with bytes in its stash
C11_AbortedInCongestionAvoidance ==
    /\ aborted
    /\ last.op = "reno_on_acked"
    /\ Less(last.inflight, last.bytes)
    /\ cc.num_loss_episodes > 0
    /\ cc.stash # << >>

\* C12, as the specification states it: on the reno_on_lost call that makes
\* num_lost_in_episode equal to 2, num_loss_episodes grows by 1,
\* cwnd_exiting_slow_start takes the window before the reduction if and only
\* if it was 0, cwnd becomes max(trunc(0.7 * cwnd), 2 * max_udp_payload_size)
\* with 0.7 * cwnd the product of real numbers, ssthresh becomes the new cwnd,
\* cwnd_minimum the smaller of itself and the new cwnd, and stash,
\* cwnd_maximum and cwnd_initial keep their values; and once a reduction has
\* written cwnd_exiting_slow_start no handler changes it.
\* (r = trunc(7 * c / 10) is stated as 10 * r <= 7 * c < 10 * r + 10.)
C12_ReductionStepExact ==
    [][\A call \in {last'}, post \in {cc'} :
        /\ (/\ call.op = "reno_on_lost"
            /\ post.num_lost_in_episode = <<2>>)
             => LET seven == Mul(cc.cwnd, <<7>>)
                    ten == Mul(post.cwnd, <<10>>)
                    min == Mul(<<2>>, call.mtu)
                IN  /\ post = [cc EXCEPT
                                !.num_lost_in_episode = <<2>>,
                                !.recovery_end = post.recovery_end,
                                !.num_loss_episodes = @ + 1,
                                !.cwnd_exiting_slow_start =
                                    IF @ = << >> THEN cc.cwnd ELSE @,
                                !.cwnd = post.cwnd,
                                !.ssthresh = post.cwnd,
                                !.cwnd_minimum =
                                    IF Less(post.cwnd, @) THEN post.cwnd ELSE @]
                    /\ \/ /\ Leq(min, post.cwnd)
                          /\ Leq(ten, seven)
                          /\ Less(seven, Add(ten, <<10>>))
                       \/ /\ post.cwnd = min
                          /\ Less(seven, Add(ten, <<10>>))
        /\ (call.op # "reno_init" /\ cc.num_loss_episodes > 0)
             => post.cwnd_exiting_slow_start = cc.cwnd_exiting_slow_start]_vars

\* C12, as the code has it: the same step, where the reduced window is
\* max(r, 2 * max_udp_payload_size) and r, the truncated double product, is
\* trunc(7 * cwnd / 10) or, only when cwnd is a multiple of 10, possibly one
\* less (7 * c = 10 * r + 10); and cwnd_exiting_slow_start, once it is not 0,
\* is changed by no handler.
C12_ReductionStep ==
    [][\A call \in {last'}, post \in {cc'} :
        /\ (/\ call.op = "reno_on_lost"
            /\ post.num_lost_in_episode = <<2>>)
             => LET seven == Mul(cc.cwnd, <<7>>)
                    ten == Mul(post.cwnd, <<10>>)
                    min == Mul(<<2>>, call.mtu)
                IN  /\ post = [cc EXCEPT
                                !.num_lost_in_episode = <<2>>,
                                !.recovery_end = post.recovery_end,
                                !.num_loss_episodes = @ + 1,
                                !.cwnd_exiting_slow_start =
                                    IF @ = << >> THEN cc.cwnd ELSE @,
                                !.cwnd = post.cwnd,
                                !.ssthresh = post.cwnd,
                                !.cwnd_minimum =
                                    IF Less(post.cwnd, @) THEN post.cwnd ELSE @]
                    /\ \/ /\ Leq(min, post.cwnd)
                          /\ Leq(ten, seven)
                          /\ Leq(seven, Add(ten, <<10>>))
                       \/ /\ post.cwnd = min
                          /\ Leq(seven, Add(ten, <<10>>))
        /\ (call.op # "reno_init" /\ cc.cwnd_exiting_slow_start # << >>)
             => post.cwnd_exiting_slow_start = cc.cwnd_exiting_slow_start]_vars

\* a window of 22080 bytes reduced to 15455, one less than 7 * 22080 / 10
C12_RoundedBelow ==
    /\ last.op = "reno_on_lost"
    /\ cc.num_lost_in_episode = <<2>>
    /\ cc.cwnd_exiting_slow_start = Num(22080)
    /\ cc.cwnd = Num(15455)
    /\ cc.ssthresh = Num(15455)
    /\ cc.cwnd_minimum = Num(15455)

\* C13: a reno_on_lost call that leaves num_lost_in_episode different from 2
\* changes no field but recovery_end and num_lost_in_episode.
C13_LossTolerance ==
    [][(/\ last'.op = "reno_on_lost"
        /\ cc'.num_lost_in_episode # <<2>>)
           => cc' = [cc EXCEPT
                       !.recovery_end = cc'.recovery_end,
                       !.num_lost_in_episode = cc'.num_lost_in_episode]]_vars

\* the only loss so far of a second episode: the window is where the
\* reduction of the first episode and the growth after it left it
C13_SingleLossOfEpisode ==
    /\ last.op = "reno_on_lost"
    /\ cc.num_lost_in_episode = <<1>>
    /\ cc.num_loss_episodes = 1
    /\ cc.stash # << >>
    /\ Less(cc.ssthresh, cc.cwnd)

\* C14: a reno_on_acked call with largest_acked < recovery_end made while
\* num_lost_in_episode >= 2 leaves the controller unchanged; a call with
\* largest_acked >= recovery_end or made while num_lost_in_episode < 2 is
\* not suppressed: its bytes go to the window or to the stash.
C14_RecoverySuppression ==
    [][(last'.op = "reno_on_acked" /\ ~aborted')
           => IF /\ last'.pn < cc.recovery_end
                 /\ Leq(<<2>>, cc.num_lost_in_episode)
              THEN cc' = cc
              ELSE \/ cc'.cwnd # cc.cwnd
                   \/ cc'.stash = ToU32(Add(cc.stash, last'.bytes))]_vars

\* an ack below recovery_end after the reduction of the episode
C14_AckSuppressed ==
    /\ last.op = "reno_on_acked"
    /\ ~aborted
    /\ last.pn < cc.recovery_end
    /\ Leq(<<2>>, cc.num_lost_in_episode)
    /\ cc.cwnd = cc.ssthresh
    /\ cc.stash = << >>

\* the largest number of windows a single ack converts in the runs explored
MaxCount == 16

\* C15: for an unsuppressed reno_on_acked call with cwnd >= ssthresh, with
\* s = stash + bytes and c = cwnd before the call, as integers: if s < c,
\* cwnd is unchanged and stash = s; otherwise, with count = s div c (the
\* count with s = count * c + stash and stash < c),
\* cwnd = c + count * max_udp_payload_size, stash = s - count * c and
\* cwnd_maximum is the larger of its old value and the new cwnd; in both
\* cases stash < cwnd after the call and no other field changes.
C15_CongestionAvoidanceGrowth ==
    [][\A call \in {last'}, post \in {cc'} :
        (/\ call.op = "reno_on_acked"
         /\ ~aborted'
         /\ ~(/\ call.pn < cc.recovery_end
              /\ Leq(<<2>>, cc.num_lost_in_episode))
         /\ Leq(cc.ssthresh, cc.cwnd))
            => /\ IF Less(Add(cc.stash, call.bytes), cc.cwnd)
                  THEN post = [cc EXCEPT !.stash = Add(cc.stash, call.bytes)]
                  ELSE \E count \in 1..MaxCount :
                         /\ Add(cc.stash, call.bytes) =
                                Add(Mul(<<count>>, cc.cwnd), post.stash)
                         /\ Less(post.stash, cc.cwnd)
                         /\ post = [cc EXCEPT
                                     !.stash = post.stash,
                                     !.cwnd = Add(cc.cwnd,
                                                  Mul(<<count>>, call.mtu)),
                                     !.cwnd_maximum =
                                         IF Less(@, post.cwnd) THEN post.cwnd
                                         ELSE @]
               /\ Less(post.stash, post.cwnd)]_vars

\* an ack of five windows in congestion avoidance: the window has grown by
\* five times max_udp_payload_size and the stash is empty
C15_FiveWindowsAcked ==
    /\ last.op = "reno_on_acked"
    /\ ~aborted
    /\ cc.num_loss_episodes = 1
    /\ cc.ssthresh = Num(2944)
    /\ last.bytes = Num(14720)
    /\ cc.cwnd = Add(cc.ssthresh, Mul(<<5>>, last.mtu))
    /\ cc.stash = << >>
    /\ cc.cwnd_maximum = cc.cwnd

\* C16: a reno_on_persistent_congestion call leaves every field of the
\* controller unchanged.
C16_PersistentCongestionNoOp ==
    [][last'.op = "reno_on_persistent_congestion" => cc' = cc]_vars

\* reno_on_persistent_congestion called on a controller whose window is
\* above the minimum window and above its smallest value so far
C16_PersistentCongestionAfterGrowth ==
    /\ last.op = "reno_on_persistent_congestion"
    /\ cc.num_loss_episodes > 0
    /\ Less(cc.cwnd_minimum, cc.cwnd)
    /\ Less(Num(4000), cc.cwnd)

\* C17: in every state with num_loss_episodes >= 1, cwnd >= ssthresh; in
\* every state with num_loss_episodes = 0, ssthresh = UINT32_MAX and
\* num_lost_in_episode <= 1.
C17_SlowStartNotReentered ==
    IF cc.num_loss_episodes >= 1
    THEN Leq(cc.ssthresh, cc.cwnd)
    ELSE /\ cc.ssthresh = <<255, 255, 255, 255>>
         /\ Leq(cc.num_lost_in_episode, <<1>>)

\* an unsuppressed ack after the first reduction has grown the window above
\* ssthresh, in an episode whose reduction has been made
C17_GrownAfterReduction ==
    /\ last.op = "reno_on_acked"
    /\ ~aborted
    /\ cc.num_loss_episodes >= 1
    /\ Leq(<<2>>, cc.num_lost_in_episode)
    /\ last.pn >= cc.recovery_end
    /\ Less(cc.ssthresh, cc.cwnd)

\* C18, as the specification states it: no reno_on_lost call leaves cwnd
\* above its value before the call, and no reno_on_acked call leaves it
\* below.
C18_LostNeverEnlarges ==
    [][\A call \in {last'}, post \in {cc'} :
        /\ call.op = "reno_on_lost" => Leq(post.cwnd, cc.cwnd)
        /\ (call.op = "reno_on_acked" /\ ~aborted')
             => Leq(cc.cwnd, post.cwnd)]_vars

\* C18, as the code has it: a reno_on_lost call leaves cwnd at or below its
\* value before the call unless that value was below
\* 2 * max_udp_payload_size and the call reduces, when it raises cwnd to
\* exactly 2 * max_udp_payload_size; a reno_on_acked call leaves cwnd at or
\* above its value before the call unless cwnd + bytes in slow start exceeds
\* UINT32_MAX, when cwnd is left at the sum less 2^32.
C18_LostEnlargesOnlyToMinimum ==
    [][\A call \in {last'}, post \in {cc'} :
        /\ call.op = "reno_on_lost"
             => IF /\ post.num_lost_in_episode = <<2>>
                   /\ Less(cc.cwnd, Mul(<<2>>, call.mtu))
                THEN post.cwnd = Mul(<<2>>, call.mtu)
                ELSE Leq(post.cwnd, cc.cwnd)
        /\ (call.op = "reno_on_acked" /\ ~aborted')
             => IF /\ Less(cc.cwnd, cc.ssthresh)
                   /\ Exceeds32(Add(cc.cwnd, call.bytes))
                THEN Add(post.cwnd, Pow2(32)) = Add(cc.cwnd, call.bytes)
                ELSE Leq(cc.cwnd, post.cwnd)]_vars

\* a reduction that has raised the window above every value it had before
C18_RaisedByClamp ==
    /\ last.op = "reno_on_lost"
    /\ cc.num_lost_in_episode = <<2>>
    /\ Less(cc.cwnd_maximum, cc.cwnd)
    /\ cc.cwnd = Mul(<<2>>, last.mtu)

\* C19: a reno_on_lost call with lost_pn < next_pn strictly increases
\* recovery_end when lost_pn >= recovery_end and leaves it unchanged
\* otherwise, and reno_on_acked, reno_on_sent and
\* reno_on_persistent_congestion leave it unchanged; so, as long as every
\* loss is reported with lost_pn < next_pn, recovery_end never decreases and
\* a packet number below it stays below it.
C19_RecoveryEndMonotone ==
    [][/\ (last'.op = "reno_on_lost" /\ last'.pn < last'.next_pn)
            => IF last'.pn >= cc.recovery_end
               THEN cc'.recovery_end > cc.recovery_end
               ELSE cc'.recovery_end = cc.recovery_end
       /\ last'.op \in {"reno_on_acked", "reno_on_sent",
                        "reno_on_persistent_congestion"}
            => cc'.recovery_end = cc.recovery_end]_vars

\* recovery_end has been moved forward a second time, by a loss reported
\* with lost_pn < next_pn, and has reached the largest packet number
C19_RecoveryEndAdvancedTwice ==
    /\ last.op = "reno_on_lost"
    /\ last.pn < last.next_pn
    /\ last.pn > 0
    /\ cc.recovery_end = MaxPn
    /\ cc.num_lost_in_episode = <<1>>
    /\ cc.num_loss_episodes = 1

\* C20, as the specification states it: in every reachable state
\* stash < cwnd.
C20_StashBelowWindow == Less(cc.stash, cc.cwnd)

\* C20, as the code has it: stash is 0 until the first reduction, and
\* stash < cwnd immediately after every unsuppressed reno_on_acked call made
\* after the first reduction (each of which takes the congestion-avoidance
\* branch); a reduction, which shrinks cwnd and leaves stash alone, may
\* leave stash >= cwnd.
C20_StashBelowWindowAfterAck ==
    IF cc.num_loss_episodes = 0
    THEN cc.stash = << >>
    ELSE (/\ last.op = "reno_on_acked"
          /\ ~aborted
          /\ ~(/\ last.pn < cc.recovery_end
               /\ Leq(<<2>>, cc.num_lost_in_episode)))
             => Less(cc.stash, cc.cwnd)

\* an ack in congestion avoidance that has converted part of the stash into
\* window growth and kept the rest
C20_StashKeptBelowWindow ==
    /\ last.op = "reno_on_acked"
    /\ ~aborted
    /\ cc.num_loss_episodes >= 1
    /\ last.pn >= cc.recovery_end
    /\ Less(cc.ssthresh, cc.cwnd)
    /\ cc.stash # << >>
    /\ Less(cc.stash, cc.cwnd)
====
